---- MODULE Spec2Model ----
(***************************************************************************)
(* Model of the two CI scripts of the repository:                          *)
(*   .github/scripts/add_jira_component.py   (single-issue Ensurer)        *)
(*   .github/scripts/jira_component_hook.py  (harvester + batch Ensurer)   *)
(* and of the issue tracker they talk to.                                  *)
(*                                                                         *)
(* Text is modelled as a sequence of one-character strings, so that        *)
(* strip/upper/split, the issue-key regex and sorted() are computed the    *)
(* way the code computes them.                                             *)
(***************************************************************************)
EXTENDS Integers, Sequences, FiniteSets

VARIABLES
  \* ---- the issue tracker (external, shared with other actors)
  projComps,            \* project key -> set of component names of the project
  issueComps,           \* issue key   -> set of component names on the issue
  \* ---- the process
  script,               \* "single" (add_jira_component) | "batch" (jira_component_hook)
  run,                  \* "first" | "second": the run of the script in progress
  pc,                   \* position of the running script
  env,                  \* the process environment / CI event (inputs)
  \* ---- locals of add_jira_component.main
  allowed_projects,     \* list of parsed project keys
  project_key,          \* issue.fields.project.key (both scripts)
  existing_components,  \* names on the issue as fetched (snapshot), a list
  project_components,   \* names listed for the project (both scripts: comps)
  \* ---- locals of jira_component_hook
  texts,                \* texts collected by extract_issue_keys
  issue_keys,           \* sorted(keys)
  idx,                  \* loop index into issue_keys
  comp,                 \* component the batch attaches
  \* ---- what the process leaves behind
  exit_code,            \* 0 | 1 once exited, -1 before
  outcome,              \* "processed" | "skipped" | "failed" | "none"
  reason,               \* skip_reason, or the cause of a failure
  output,               \* lines appended to GITHUB_OUTPUT
  log,                  \* batch: <<key, "OK"|"WARN">> lines printed, in order
  calls,                \* requests sent to the tracker in this run, in order
  \* ---- history of the environment
  raised,               \* batch: keys whose iteration raised
  others,               \* number of steps other actors have taken
  interfered,           \* another actor changed the tracker during this run
  actorAdded,           \* <<issue, name>> pairs other actors attached
  snapProj, snapIssue,  \* the tracker as it was when this run started
  prevOutcome,          \* second run: did the first succeed, and on which keys
  gh_response           \* what the source-control host answered, if asked

vars == <<projComps, issueComps, script, run, pc, env, allowed_projects,
          project_key, existing_components, project_components, texts,
          issue_keys, idx, comp, exit_code, outcome, reason, output, log,
          calls, raised, others, interfered, actorAdded, snapProj, snapIssue,
          prevOutcome, gh_response>>

-----------------------------------------------------------------------------
(* Bounds *)

\* longest allow-list string drawn exhaustively
MaxFilterLen == 4
\* longest text drawn exhaustively for the issue-key regex
MaxTextLen == 5
\* most commit messages in an event payload / PR commit list
MaxMsgs == 2
\* most steps other actors take
MaxOther == 1

-----------------------------------------------------------------------------
(* Text *)

\* None / a JSON null / an absent key: not a text
NoText == <<"<none>">>

UpperLetters == {"A", "B", "C", "D", "E", "V"}
LowerLetters == {"a", "b", "c", "d", "e", "v"}
Digits == {"1", "2", "9"}
Spaces == {" "}

\* str.isspace, on the model's alphabet
IsSpace(c) == c \in Spaces

\* \w of the regex: letters, digits and the underscore
IsWord(c) == c \in UpperLetters \cup LowerLetters \cup Digits \cup {"_"}

\* code point order of the model's alphabet (ASCII)
Ord(c) ==
  CASE c = " " -> 32
    [] c = "," -> 44
    [] c = "-" -> 45
    [] c = "1" -> 49
    [] c = "2" -> 50
    [] c = "9" -> 57
    [] c = "A" -> 65
    [] c = "B" -> 66
    [] c = "C" -> 67
    [] c = "D" -> 68
    [] c = "E" -> 69
    [] c = "V" -> 86
    [] c = "_" -> 95
    [] c = "a" -> 97
    [] c = "b" -> 98
    [] c = "c" -> 99
    [] c = "d" -> 100
    [] c = "e" -> 101
    [] c = "v" -> 118

\* str.upper on one character
UpperChar(c) ==
  CASE c = "a" -> "A"
    [] c = "b" -> "B"
    [] c = "c" -> "C"
    [] c = "d" -> "D"
    [] c = "e" -> "E"
    [] c = "v" -> "V"
    [] OTHER -> c

\* str.upper
Upper(s) == [i \in 1..Len(s) |-> UpperChar(s[i])]

RECURSIVE LStrip(_)
LStrip(s) == IF s # <<>> /\ IsSpace(Head(s)) THEN LStrip(Tail(s)) ELSE s

RECURSIVE RStrip(_)
RStrip(s) ==
  IF s # <<>> /\ IsSpace(s[Len(s)]) THEN RStrip(SubSeq(s, 1, Len(s) - 1)) ELSE s

\* str.strip
Strip(s) == RStrip(LStrip(s))

\* str.split(','): the pieces between commas, empty ones included
RECURSIVE SplitFrom(_, _)
SplitFrom(s, cur) ==
  IF s = <<>> THEN <<cur>>
  ELSE IF Head(s) = "," THEN <<cur>> \o SplitFrom(Tail(s), <<>>)
  ELSE SplitFrom(Tail(s), Append(cur, Head(s)))

Split(s) == SplitFrom(s, <<>>)

\* `not jira_project_filter or jira_project_filter.strip() == ''`
FilterBlank(f) == f = NoText \/ f = <<>> \/ Strip(f) = <<>>

\* [p.strip().upper() for p in jira_project_filter.split(',') if p.strip()]
RECURSIVE ParseParts(_)
ParseParts(parts) ==
  IF parts = <<>> THEN <<>>
  ELSE IF Strip(Head(parts)) # <<>>
       THEN <<Upper(Strip(Head(parts)))>> \o ParseParts(Tail(parts))
       ELSE ParseParts(Tail(parts))

ParseAllowListMutant(f) == ParseParts(<<f>>)
ParseAllowList(f) == ParseParts(Split(f))

Range(s) == {s[i] : i \in 1..Len(s)}

\* `project_key.upper() not in allowed_projects`
ProjectAllowedNoGate(key, allowed) == TRUE
ProjectAllowed(key, allowed) == Upper(key) \in Range(allowed)

-----------------------------------------------------------------------------
(* The issue-key regex and sorted() of jira_component_hook.py *)

\* is position i of t a word character (positions off the text are not)
WordAt(t, i) == i \in 1..Len(t) /\ IsWord(t[i])

\* \b just before position pos
Boundary(t, pos) == WordAt(t, pos - 1) # WordAt(t, pos)

\* last position of the longest run of characters of class cls that starts
\* at pos (pos - 1 when the run is empty): a greedy `[..]+`
RECURSIVE RunEnd(_, _, _)
RunEnd(t, pos, cls) ==
  IF pos <= Len(t) /\ t[pos] \in cls THEN RunEnd(t, pos + 1, cls) ELSE pos - 1

\* ISSUE_KEY_RE matched at pos: the position of the match's last character,
\* 0 when there is no match at pos.  Neither greedy run can give back a
\* character: what follows [A-Z0-9]+ is '-', and \b cannot fall between two
\* digits.
MatchEnd(t, pos) ==
  IF pos <= Len(t) /\ Boundary(t, pos) /\ t[pos] \in UpperLetters
  THEN LET e1 == RunEnd(t, pos + 1, UpperLetters \cup Digits)
       IN  IF e1 >= pos + 1 /\ e1 + 1 <= Len(t) /\ t[e1 + 1] = "-"
           THEN LET e2 == RunEnd(t, e1 + 2, Digits)
                IN  IF e2 >= e1 + 2 /\ Boundary(t, e2 + 1) THEN e2 ELSE 0
           ELSE 0
  ELSE 0

\* ISSUE_KEY_RE.findall(t): leftmost matches, each search resuming after the
\* previous match
RECURSIVE FindAllFrom(_, _)
FindAllFrom(t, pos) ==
  IF pos > Len(t) THEN <<>>
  ELSE LET e == MatchEnd(t, pos)
       IN  IF e = 0 THEN FindAllFrom(t, pos + 1)
           ELSE <<SubSeq(t, pos, e)>> \o FindAllFrom(t, e + 1)

FindAll(t) == FindAllFrom(t, 1)

\* Python's str `<`: code point order, a proper prefix first
RECURSIVE StrLess(_, _)
StrLess(a, b) ==
  IF b = <<>> THEN FALSE
  ELSE IF a = <<>> THEN TRUE
  ELSE IF Head(a) # Head(b) THEN Ord(Head(a)) < Ord(Head(b))
  ELSE StrLess(Tail(a), Tail(b))

\* sorted(keys) of a set of strings
RECURSIVE Sorted(_)
Sorted(S) ==
  IF S = {} THEN <<>>
  ELSE LET m == CHOOSE x \in S : \A y \in S \ {x} : StrLess(x, y)
       IN  <<m>> \o Sorted(S \ {m})

\* the keys found in a list of texts (lines 76-82): falsy texts are skipped
KeysOf(ts) ==
  UNION {Range(FindAll(ts[i])) : i \in {j \in 1..Len(ts) : ts[j] # NoText /\ ts[j] # <<>>}}

-----------------------------------------------------------------------------
(* The tracker: issues, projects, components *)

K_AA1 == <<"A", "A", "-", "1">>
K_AA2 == <<"A", "A", "-", "2">>
K_B11 == <<"B", "1", "-", "1">>
Issues == {K_AA1, K_AA2, K_B11}

P_AA == <<"A", "A">>
P_B1 == <<"B", "1">>
Projects == {P_AA, P_B1}

\* the project the tracker files an issue under: the key up to the dash
ProjectOf ==
  [i \in Issues |-> SubSeq(i, 1, (CHOOSE d \in 1..Len(i) : i[d] = "-") - 1)]

\* COMPONENT_NAME / REPO_NAME of the run, a component that predates it, and
\* one that other actors attach
Target == "repo"
AllNames == <<"old", "repo", "x">>

\* a set of component names as the list the tracker answers with
ListOf(S) == SelectSeq(AllNames, LAMBDA n : n \in S)

\* POST /component
TrackerCreateComponent(pcs, proj, name) == [pcs EXCEPT ![proj] = @ \cup {name}]

\* PUT /issue/{key} {fields: {components: [{name}, ...]}}: the field is replaced
TrackerReplaceComponents(ics, key, names) == [ics EXCEPT ![key] = Range(names)]

\* PUT /issue/{key} {update: {components: [{add: {id}}]}}: one component added
TrackerAddComponentMutant(ics, key, c) == [ics EXCEPT ![key] = {c.name}]
TrackerAddComponent(ics, key, c) == [ics EXCEPT ![key] = @ \cup {c.name}]

-----------------------------------------------------------------------------
(* Frames *)

tracker == <<projComps, issueComps>>
inputs == <<script, run, env>>
singleLocals == <<allowed_projects, existing_components>>
batchLocals == <<texts, issue_keys, idx, comp, log, raised>>
result == <<exit_code, outcome, reason, output>>
history == <<others, interfered, actorAdded, snapProj, snapIssue, prevOutcome,
             gh_response>>

\* a request sent to the tracker: the operation, the issue or project it is
\* about, what was sent, and whether it was answered with success
Call(op, about, body, ok) == [op |-> op, about |-> about, body |-> body, ok |-> ok]

-----------------------------------------------------------------------------
(* add_jira_component.py: main *)

\* a line `k=v` appended to GITHUB_OUTPUT
Line(k, v) == [k |-> k, v |-> v]

\* sys.exit(1) of lines 29 and 152: nothing is written to GITHUB_OUTPUT
FailMutant(why) ==
  /\ pc' = "exited"
  /\ exit_code' = 0
  /\ outcome' = "failed"
  /\ reason' = why
  /\ UNCHANGED output
Fail(why) ==
  /\ pc' = "exited"
  /\ exit_code' = 1
  /\ outcome' = "failed"
  /\ reason' = why
  /\ UNCHANGED output

\* the skip marker and sys.exit(0) of lines 37-42, 51-56, 87-92
Skip(why) ==
  /\ pc' = "exited"
  /\ exit_code' = 0
  /\ outcome' = "skipped"
  /\ reason' = why
  /\ output' = output \o <<Line("status", "skipped"), Line("skip_reason", why)>>

\* lines 21-29: the required variables
Validate ==
  /\ script = "single" /\ pc = "validate"
  /\ IF env.required THEN pc' = "check_filter" /\ UNCHANGED result
                     ELSE Fail("missing_input")
  /\ UNCHANGED <<tracker, inputs, singleLocals, project_key, project_components,
                 batchLocals, calls, history>>

\* lines 31-42: JIRA_PROJECT absent or blank
CheckFilter ==
  /\ script = "single" /\ pc = "check_filter"
  /\ IF FilterBlank(env.filter) THEN Skip("missing_project_filter")
                                ELSE pc' = "parse" /\ UNCHANGED result
  /\ UNCHANGED <<tracker, inputs, singleLocals, project_key, project_components,
                 batchLocals, calls, history>>

\* lines 44-64: the allow-list is parsed
ParseFilter ==
  /\ script = "single" /\ pc = "parse"
  /\ allowed_projects' = ParseAllowList(env.filter)
  /\ IF allowed_projects' = <<>> THEN Skip("invalid_project_filter")
                                 ELSE pc' = "connect" /\ UNCHANGED result
  /\ UNCHANGED <<tracker, inputs, existing_components, project_key,
                 project_components, batchLocals, calls, history>>

\* lines 66-73: JIRA(server, basic_auth); raising ends the run at line 150
Connect ==
  /\ script = "single" /\ pc = "connect"
  /\ \E ok \in BOOLEAN :
       IF ok THEN pc' = "fetch" /\ UNCHANGED result ELSE Fail("api_error")
  /\ UNCHANGED <<tracker, inputs, singleLocals, project_key, project_components,
                 batchLocals, calls, history>>

\* lines 75-94: jira.issue(issue_key), then the allow-list gate
FetchIssue ==
  /\ script = "single" /\ pc = "fetch"
  /\ \E ok \in BOOLEAN :
       /\ calls' = Append(calls, Call("get_issue", env.issue_key, <<>>, ok))
       /\ IF ~ok
          THEN Fail("api_error") /\ UNCHANGED <<project_key, existing_components>>
          ELSE /\ project_key' = env.projects[env.issue_key]
               /\ existing_components' = ListOf(issueComps[env.issue_key])
               /\ IF ProjectAllowed(project_key', allowed_projects)
                  THEN pc' = "list" /\ UNCHANGED result
                  ELSE Skip("project_not_allowed")
  /\ UNCHANGED <<tracker, inputs, allowed_projects, project_components,
                 batchLocals, history>>

\* lines 96-99: jira.project_components(project_key)
ListComponents ==
  /\ script = "single" /\ pc = "list"
  /\ \E ok \in BOOLEAN :
       /\ calls' = Append(calls, Call("list_components", project_key, <<>>, ok))
       /\ IF ok THEN /\ project_components' = projComps[project_key]
                     /\ pc' = "create" /\ UNCHANGED result
                ELSE Fail("api_error") /\ UNCHANGED project_components
  /\ UNCHANGED <<tracker, inputs, singleLocals, project_key, batchLocals, history>>

\* lines 101-111: jira.create_component when the name was not listed.  The
\* tracker refuses a name the project already has (409), and the client raises
\* on every refusal; nothing here catches it before line 150.
CreateComponent ==
  /\ script = "single" /\ pc = "create"
  /\ IF env.component_name \in project_components
     THEN pc' = "attach" /\ UNCHANGED <<result, calls, projComps>>
     ELSE IF env.component_name \in projComps[project_key]
     THEN /\ calls' = Append(calls, Call("create_component", project_key,
                                         <<env.component_name>>, FALSE))
          /\ Fail("conflict") /\ UNCHANGED projComps
     ELSE \E ok \in BOOLEAN :
            /\ calls' = Append(calls, Call("create_component", project_key,
                                           <<env.component_name>>, ok))
            /\ IF ok THEN /\ projComps' = TrackerCreateComponent(
                                            projComps, project_key, env.component_name)
                          /\ pc' = "attach" /\ UNCHANGED result
                     ELSE Fail("api_error") /\ UNCHANGED projComps
  /\ UNCHANGED <<issueComps, inputs, singleLocals, project_key, project_components,
                 batchLocals, history>>

\* `component_name in existing_components` (line 118)
AlreadyAttachedMutant(name, existing) == FALSE
AlreadyAttached(name, existing) == name \in Range(existing)

\* lines 113-134: already attached, or look the component up, listing the
\* project again when it was created by this run
LookupComponent ==
  /\ script = "single" /\ pc = "attach"
  /\ IF AlreadyAttached(env.component_name, existing_components)
     THEN pc' = "finish" /\ UNCHANGED <<result, calls, project_components>>
     ELSE IF env.component_name \in project_components
     THEN pc' = "update" /\ UNCHANGED <<result, calls, project_components>>
     ELSE \E ok \in BOOLEAN :
            /\ calls' = Append(calls, Call("list_components", project_key, <<>>, ok))
            /\ IF ok THEN /\ project_components' = projComps[project_key]
                          /\ pc' = "update" /\ UNCHANGED result
                     ELSE Fail("api_error") /\ UNCHANGED project_components
  /\ UNCHANGED <<tracker, inputs, singleLocals, project_key, batchLocals, history>>

\* `existing_components + [component_name]` (line 137)
AllComponentsMutant(existing, name) == <<name>>
AllComponents(existing, name) == existing \o <<name>>

\* lines 136-142: issue.update(fields={'components': ...}), a full replace
UpdateIssue ==
  /\ script = "single" /\ pc = "update"
  /\ LET all_components == AllComponents(existing_components, env.component_name)
     IN  \E ok \in BOOLEAN :
           /\ calls' = Append(calls, Call("update_issue", env.issue_key,
                                          all_components, ok))
           /\ IF ok THEN /\ issueComps' = TrackerReplaceComponents(
                                            issueComps, env.issue_key, all_components)
                         /\ pc' = "finish" /\ UNCHANGED result
                    ELSE Fail("api_error") /\ UNCHANGED issueComps
  /\ UNCHANGED <<projComps, inputs, singleLocals, project_key, project_components,
                 batchLocals, history>>

\* lines 144-148: the success marker; main returns
Finish ==
  /\ script = "single" /\ pc = "finish"
  /\ pc' = "exited"
  /\ exit_code' = 0
  /\ outcome' = "processed"
  /\ reason' = "none"
  /\ output' = output \o <<Line("status", "processed")>>
  /\ UNCHANGED <<tracker, inputs, singleLocals, project_key, project_components,
                 batchLocals, calls, history>>

Single ==
  \/ Validate \/ CheckFilter \/ ParseFilter \/ Connect \/ FetchIssue
  \/ ListComponents \/ CreateComponent \/ LookupComponent \/ UpdateIssue \/ Finish

-----------------------------------------------------------------------------
(* jira_component_hook.py: extract_issue_keys *)

\* a JSON body of the source-control host: a list of commits or something else
Json(isList, items) == [json |-> TRUE, list |-> isList, items |-> items]
None == Json(FALSE, <<>>)

\* a body that is not JSON: r.json() raises on it
NotJson == [json |-> FALSE, list |-> FALSE, items |-> <<>>]

\* an element of the commit list whose "commit" is null (or that is no
\* object): c.get("commit", {}).get("message") raises on it
BadCommit == <<"<bad>">>

\* what the host does with a request: no answer (requests.get raises), or a
\* status and a body
Answer(reach, status, body) == [reach |-> reach, status |-> status, body |-> body]

\* what a call returns: a value, or an exception
Returned(v) == [raised |-> FALSE, value |-> v]
Raised == [raised |-> TRUE, value |-> None]

\* gh_api (lines 23-32): None without a token or on any status but 200;
\* requests.get (line 29) and r.json() (line 31) may raise
gh_api(token, answer) ==
  IF ~token THEN Returned(None)
  ELSE IF ~answer.reach THEN Raised
  ELSE IF answer.status = 200
       THEN IF answer.body.json THEN Returned(answer.body) ELSE Raised
       ELSE Returned(None)

\* the texts of a push event (lines 44-57): the commits that have a message,
\* the ref, and the last local commit message when git answers
PushTexts(e) ==
  SelectSeq(e.commits, LAMBDA m : m # NoText)
    \o <<IF e.ref = NoText THEN <<>> ELSE e.ref>>
    \o (IF e.git_msg = NoText THEN <<>> ELSE <<e.git_msg>>)

\* the texts of a pull_request event before the commit list (lines 59-65)
PullRequestTexts(e) == <<e.title, e.body, e.head_ref>>

\* lines 35-65: the texts of the event
HarvestCollect ==
  /\ script = "batch" /\ pc = "collect"
  /\ texts' = IF env.event_name = "push" THEN PushTexts(env)
              ELSE IF env.event_name = "pull_request" THEN PullRequestTexts(env)
              ELSE <<>>
  /\ pc' = IF env.event_name = "pull_request" /\ env.coords /\ env.token
           THEN "gh_api" ELSE "extract"
  /\ UNCHANGED <<tracker, inputs, singleLocals, project_key, project_components,
                 issue_keys, idx, comp, log, raised, result, calls, history>>

\* the bodies the host can answer with: a list of commits (each with a
\* message, without one, or malformed), JSON that is no list, or no JSON
GhBodies ==
  {Json(FALSE, <<>>), NotJson} \cup
  {Json(TRUE, items) : items \in
     UNION {[1..n -> {NoText, BadCommit, K_AA1,
                      <<"B", "1", "-", "1", " ", "b", "-", "2">>}] :
            n \in 0..MaxMsgs}}

\* the answers the host can give
HostAnswers ==
  {Answer(FALSE, 0, None)} \cup
  {Answer(TRUE, status, body) : status \in {200, 404}, body \in GhBodies}

\* no answer was asked for
NotAsked == [asked |-> FALSE, answer |-> Answer(FALSE, 0, None)]

\* an exception leaves extract_issue_keys; main calls it outside its try
\* (line 142), so the process ends with a traceback and exit code 1
HarvestRaise ==
  /\ pc' = "exited"
  /\ exit_code' = 1
  /\ outcome' = "failed"
  /\ reason' = "harvest_error"
  /\ UNCHANGED <<output, texts>>

\* lines 67-74: the PR's commit messages, best effort
HarvestFetch ==
  /\ script = "batch" /\ pc = "gh_api"
  /\ \E answer \in HostAnswers :
       LET commits == gh_api(env.token, answer)
       IN  /\ gh_response' = [asked |-> TRUE, answer |-> answer]
           /\ IF commits.raised THEN HarvestRaise
              ELSE IF ~commits.value.list
              THEN pc' = "extract" /\ UNCHANGED <<texts, result>>
              ELSE IF BadCommit \in Range(commits.value.items) THEN HarvestRaise
              ELSE /\ texts' = texts \o SelectSeq(commits.value.items,
                                                  LAMBDA m : m # NoText /\ m # <<>>)
                   /\ pc' = "extract" /\ UNCHANGED result
  /\ UNCHANGED <<tracker, inputs, singleLocals, project_key, project_components,
                 issue_keys, idx, comp, log, raised, calls, others,
                 interfered, actorAdded, snapProj, snapIssue, prevOutcome>>

\* lines 76-84: the keys of the texts, sorted
HarvestExtract ==
  /\ script = "batch" /\ pc = "extract"
  /\ issue_keys' = Sorted(KeysOf(texts))
  /\ pc' = "dispatch"
  /\ UNCHANGED <<tracker, inputs, singleLocals, project_key, project_components,
                 texts, idx, comp, log, raised, result, calls, history>>

Harvest == HarvestCollect \/ HarvestFetch \/ HarvestExtract

-----------------------------------------------------------------------------
(* jira_component_hook.py: main *)

\* JIRA_COMPONENT_LEAD is read at line 116 and assigned nowhere in the module
\* (lines 10-21 are all of its globals): reading it raises NameError
JIRA_COMPONENT_LEAD_defined == FALSE

\* a component as the tracker lists it: its id stands for (project, name)
Component(proj, name) == [project |-> proj, name |-> name]

key == issue_keys[idx]

\* the for loop of line 148 moves on, or main returns (exit code 0)
NextKey ==
  /\ idx' = idx + 1
  /\ IF idx + 1 <= Len(issue_keys)
     THEN pc' = "b_fetch" /\ UNCHANGED result
     ELSE /\ pc' = "exited" /\ exit_code' = 0
          /\ outcome' = "completed" /\ reason' = "none" /\ UNCHANGED output

\* lines 159-163: either except clause prints [WARN] and the loop goes on
WarnMutant(k) ==
  /\ log' = Append(log, <<k, "WARN">>)
  /\ raised' = raised \cup {k}
  /\ idx' = idx
  /\ pc' = "exited" /\ exit_code' = 1
  /\ outcome' = "failed" /\ reason' = "api_error" /\ UNCHANGED output
Warn(k) ==
  /\ log' = Append(log, <<k, "WARN">>)
  /\ raised' = raised \cup {k}
  /\ NextKey

\* lines 142-148: extract_issue_keys has returned (its locals are gone); no
\* keys, nothing to do; otherwise the loop starts
Dispatch ==
  /\ script = "batch" /\ pc = "dispatch"
  /\ texts' = <<>>
  /\ gh_response' = NotAsked
  /\ IF issue_keys = <<>>
     THEN /\ pc' = "exited" /\ exit_code' = 0
          /\ outcome' = "completed" /\ reason' = "none" /\ UNCHANGED output
     ELSE pc' = "b_fetch" /\ UNCHANGED result
  /\ UNCHANGED <<tracker, inputs, singleLocals, project_key, project_components,
                 issue_keys, idx, comp, log, raised, calls, others, interfered,
                 actorAdded, snapProj, snapIssue, prevOutcome>>

\* line 150, jira_get_issue_project (lines 94-100)
BatchFetch ==
  /\ script = "batch" /\ pc = "b_fetch"
  /\ \E ok \in BOOLEAN :
       /\ calls' = Append(calls, Call("get_issue", key, <<>>, ok))
       /\ IF ok THEN /\ project_key' = env.projects[key]
                     /\ pc' = "b_list"
                     /\ UNCHANGED <<result, idx, log, raised>>
                ELSE Warn(key) /\ UNCHANGED project_key
  /\ UNCHANGED <<tracker, inputs, singleLocals, project_components, texts,
                 issue_keys, comp, history>>

\* lines 151-153, jira_list_components (lines 102-110): reuse the component
\* when its name is listed
BatchList ==
  /\ script = "batch" /\ pc = "b_list"
  /\ \E ok \in BOOLEAN :
       /\ calls' = Append(calls, Call("list_components", project_key, <<>>, ok))
       /\ IF ok THEN /\ project_components' = projComps[project_key]
                     /\ IF Target \in project_components'
                        THEN pc' = "b_attach" /\ comp' = Component(project_key, Target)
                        ELSE pc' = "b_create" /\ UNCHANGED comp
                     /\ UNCHANGED <<result, idx, log, raised>>
                ELSE Warn(key) /\ UNCHANGED <<project_components, comp>>
  /\ UNCHANGED <<tracker, inputs, singleLocals, project_key, texts, issue_keys,
                 history>>

\* line 155, jira_create_component (lines 112-124).  Line 116 raises
\* NameError before anything is sent.  Were the name defined: POST; on 409
\* the project is listed again and comps.get(name) is returned.
BatchCreate ==
  /\ script = "batch" /\ pc = "b_create"
  /\ IF ~JIRA_COMPONENT_LEAD_defined
     THEN Warn(key) /\ UNCHANGED <<calls, projComps, comp>>
     ELSE IF Target \in projComps[project_key]
     THEN \E ok \in BOOLEAN :
            /\ calls' = calls \o <<Call("create_component", project_key, <<Target>>, FALSE),
                                   Call("list_components", project_key, <<>>, ok)>>
            /\ IF ok THEN /\ comp' = Component(project_key, Target)
                          /\ pc' = "b_attach"
                          /\ UNCHANGED <<result, idx, log, raised>>
                     ELSE Warn(key) /\ UNCHANGED comp
            /\ UNCHANGED projComps
     ELSE \E ok \in BOOLEAN :
            /\ calls' = Append(calls, Call("create_component", project_key, <<Target>>, ok))
            /\ IF ok THEN /\ projComps' = TrackerCreateComponent(projComps, project_key, Target)
                          /\ comp' = Component(project_key, Target)
                          /\ pc' = "b_attach"
                          /\ UNCHANGED <<result, idx, log, raised>>
                     ELSE Warn(key) /\ UNCHANGED <<projComps, comp>>
  /\ UNCHANGED <<issueComps, inputs, singleLocals, project_key, project_components,
                 texts, issue_keys, history>>

\* how the tracker answers the PUT of line 136, as lines 138-139 tell the
\* answers apart: 200 or 204 (the attach is done); a status raise_for_status
\* raises on, or no answer at all; any other status (202, an unfollowed 3xx,
\* ...), for which nothing is raised although no attach was reported done
AttachAnswers == {"done", "error", "other"}

\* lines 157-158, jira_add_component_to_issue (lines 126-139): additive; [OK]
\* is printed whenever nothing was raised
BatchAttach ==
  /\ script = "batch" /\ pc = "b_attach"
  /\ \E answer \in AttachAnswers :
       /\ calls' = Append(calls, Call("add_component", key, <<comp.name>>,
                                      answer = "done"))
       /\ IF answer = "error"
          THEN Warn(key) /\ UNCHANGED issueComps
          ELSE /\ issueComps' = IF answer = "done"
                                THEN TrackerAddComponent(issueComps, key, comp)
                                ELSE issueComps
               /\ log' = Append(log, <<key, "OK">>)
               /\ NextKey
               /\ UNCHANGED raised
  /\ UNCHANGED <<projComps, inputs, singleLocals, project_key, project_components,
                 texts, issue_keys, comp, history>>

Batch == Dispatch \/ BatchFetch \/ BatchList \/ BatchCreate \/ BatchAttach

-----------------------------------------------------------------------------
(* Other actors on the tracker, and a second run of the script *)

\* another actor attaches component "x" to an issue (creating it in the
\* issue's project when it is not there), while a run is in progress
OtherAttach ==
  /\ pc # "exited" /\ others < MaxOther
  /\ \E i \in DOMAIN issueComps :
       /\ "x" \notin issueComps[i]
       /\ issueComps' = [issueComps EXCEPT ![i] = @ \cup {"x"}]
       /\ projComps' = [projComps EXCEPT ![env.projects[i]] = @ \cup {"x"}]
       /\ actorAdded' = actorAdded \cup {<<i, "x">>}
  /\ others' = others + 1
  /\ interfered' = TRUE
  /\ UNCHANGED <<inputs, pc, singleLocals, project_key, project_components,
                 batchLocals, result, calls, snapProj, snapIssue, prevOutcome,
                 gh_response>>

\* another actor creates the run's component in a project, while a run is in
\* progress (the race of jira_component_hook.py line 119)
OtherCreate ==
  /\ pc # "exited" /\ others < MaxOther
  /\ \E p \in DOMAIN projComps :
       /\ Target \notin projComps[p]
       /\ projComps' = TrackerCreateComponent(projComps, p, Target)
  /\ others' = others + 1
  /\ interfered' = TRUE
  /\ UNCHANGED <<issueComps, inputs, pc, singleLocals, project_key,
                 project_components, batchLocals, result, calls, actorAdded,
                 snapProj, snapIssue, prevOutcome, gh_response>>

\* where each script starts
StartOf(sc) == IF sc = "single" THEN "validate" ELSE "collect"

\* did the run that just ended succeed: processed, or every key reported OK
\* with every tracker request answered with success
Succeeded ==
  IF script = "single" THEN outcome = "processed"
  ELSE exit_code = 0 /\ raised = {} /\ \A i \in 1..Len(calls) : calls[i].ok

\* the script is run again, on the same inputs, against the tracker as the
\* first run left it
Restart ==
  /\ pc = "exited" /\ run = "first"
  /\ run' = "second"
  /\ pc' = StartOf(script)
  /\ prevOutcome' = [succeeded |-> Succeeded,
                      keys |-> IF script = "single" THEN <<env.issue_key>>
                               ELSE issue_keys]
  /\ snapProj' = projComps /\ snapIssue' = issueComps
  /\ interfered' = FALSE
  /\ allowed_projects' = <<>> /\ existing_components' = <<>>
  /\ project_key' = <<>> /\ project_components' = {}
  /\ texts' = <<>> /\ issue_keys' = <<>> /\ idx' = 1
  /\ comp' = Component(<<>>, "none")
  /\ log' = <<>> /\ raised' = {} /\ calls' = <<>>
  /\ exit_code' = -1 /\ outcome' = "none" /\ reason' = "none" /\ output' = <<>>
  /\ gh_response' = NotAsked
  /\ UNCHANGED <<tracker, script, env, others, actorAdded>>

-----------------------------------------------------------------------------
(* Initial states *)

\* the environment of a run of add_jira_component.py (lines 14-19) and what
\* the tracker files each issue under
SingleEnv(required, filter, issue, projects) ==
  [required |-> required, filter |-> filter, issue_key |-> issue,
   component_name |-> Target, projects |-> projects,
   event_name |-> "none", commits |-> <<>>, ref |-> NoText, git_msg |-> NoText,
   title |-> NoText, body |-> NoText, head_ref |-> NoText,
   token |-> FALSE, coords |-> FALSE]

\* the environment of a run of jira_component_hook.py (lines 10-18, 38-42):
\* a push event
PushEnv(commits, ref, git_msg) ==
  [required |-> TRUE, filter |-> NoText, issue_key |-> <<>>,
   component_name |-> Target, projects |-> ProjectOf,
   event_name |-> "push", commits |-> commits, ref |-> ref, git_msg |-> git_msg,
   title |-> NoText, body |-> NoText, head_ref |-> NoText,
   token |-> FALSE, coords |-> FALSE]

\* a pull_request event (or, under another name, an event that is neither)
PullRequestEnv(name, title, body, head_ref, token, coords) ==
  [required |-> TRUE, filter |-> NoText, issue_key |-> <<>>,
   component_name |-> Target, projects |-> ProjectOf,
   event_name |-> name, commits |-> <<>>, ref |-> NoText, git_msg |-> NoText,
   title |-> title, body |-> body, head_ref |-> head_ref,
   token |-> token, coords |-> coords]

InitProcess(sc, e) ==
  /\ script = sc /\ run = "first" /\ pc = StartOf(sc)
  /\ env = e
  /\ allowed_projects = <<>> /\ existing_components = <<>>
  /\ project_key = <<>> /\ project_components = {}
  /\ texts = <<>> /\ issue_keys = <<>> /\ idx = 1
  /\ comp = Component(<<>>, "none")
  /\ log = <<>> /\ raised = {} /\ calls = <<>>
  /\ exit_code = -1 /\ outcome = "none" /\ reason = "none" /\ output = <<>>
  /\ others = 0 /\ interfered = FALSE /\ actorAdded = {}
  /\ snapProj = projComps /\ snapIssue = issueComps
  /\ prevOutcome = [succeeded |-> FALSE, keys |-> <<>>]
  /\ gh_response = NotAsked

\* trackers over the given issues: every project has "old", may have the
\* run's component; an issue carries one of the given sets of its project's
\* components
Trackers(issues, projects, sets) ==
  {t \in [proj : [{projects[i] : i \in issues} -> {{"old"}, {"old", Target}}],
          issue : [issues -> sets]] :
     \A i \in issues : t.issue[i] \subseteq t.proj[projects[i]]}


\* all strings over an alphabet up to a length
Strings(alphabet, n) == UNION {[1..k -> alphabet] : k \in 0..n}

\* allow-list strings of the tracker-level specification
FilterPool ==
  {NoText, <<" ">>, <<",">>, <<"a", "a">>, <<"B", "1">>,
   <<"a", "a", ",", " ", "B", "1", " ", ",">>}

\* events of the tracker-level specification: their texts name the issues
\* out of order, more than once, and beside a lower-case look-alike
BatchEvents ==
  {PushEnv(<<>>, NoText, NoText),
   PushEnv(<<K_B11>>, NoText, <<"a", "a", "-", "9">>),
   PushEnv(<<K_AA2>>, <<"d", "-", "A", "A", "-", "1">>, K_AA2),
   PushEnv(<<K_B11, K_AA2>>, K_AA1, NoText),
   PullRequestEnv("pull_request", K_AA2, NoText, K_AA2, TRUE, TRUE)}

\* a run of either script against a tracker, a second run after it, and other
\* actors on the same tracker
Init ==
  \/ \E required \in BOOLEAN, filter \in FilterPool, issue \in {K_AA1, K_B11} :
       \E t \in Trackers({issue}, ProjectOf, SUBSET {"old", Target}) :
         /\ projComps = t.proj /\ issueComps = t.issue
         /\ InitProcess("single", SingleEnv(required, filter, issue, ProjectOf))
  \/ \E e \in BatchEvents :
       \E t \in Trackers(Issues, ProjectOf, {{"old"}, {"old", Target}}) :
         /\ projComps = t.proj /\ issueComps = t.issue
         /\ InitProcess("batch", e)

Next == Single \/ Harvest \/ Batch \/ OtherAttach \/ OtherCreate \/ Restart

Spec == Init /\ [][Next]_vars

-----------------------------------------------------------------------------
(* The allow-list, exhaustively: every string up to MaxFilterLen *)

FilterAlphabet == {"A", "a", "B", " ", ","}

\* "ca, Dev ,"
ExampleFilter == <<"c", "a", ",", " ", "D", "e", "v", " ", ",">>

\* project keys the tracker may report, in either case
ProjectKeyPool ==
  {<<"A">>, <<"a">>, <<"B">>, <<"A", "B">>, <<"a", "b">>, <<"d", "E", "v">>}

InitParse ==
  \E required \in BOOLEAN,
     filter \in Strings(FilterAlphabet, MaxFilterLen) \cup {NoText, ExampleFilter},
     p \in ProjectKeyPool :
    /\ projComps = [q \in {p} |-> {"old"}]
    /\ issueComps = [i \in {K_AA1} |-> {"old"}]
    /\ InitProcess("single", SingleEnv(required, filter, K_AA1, [i \in {K_AA1} |-> p]))

NextParse == Validate \/ CheckFilter \/ ParseFilter \/ Connect \/ FetchIssue

SpecParse == InitParse /\ [][NextParse]_vars

-----------------------------------------------------------------------------
(* The harvester: every text up to MaxTextLen, and events built from a pool *)

TextAlphabet == {"A", "a", "1", "-", " "}

TextPool ==
  {NoText, <<>>, K_AA1,
   <<"B", "1", "-", "1", " ", "A", "A", "-", "1">>,
   <<"A", "_", "A", "A", "-", "2", " ", "a", "a", "-", "9">>}

InitHarvest ==
  /\ projComps = [q \in Projects |-> {"old"}]
  /\ issueComps = [i \in Issues |-> {"old"}]
  /\ \/ \E t \in Strings(TextAlphabet, MaxTextLen) :
          InitProcess("batch", PushEnv(<<t>>, NoText, NoText))
     \/ \E commits \in UNION {[1..n -> TextPool] : n \in 0..MaxMsgs},
           ref \in {NoText, <<"d", "-", "A", "A", "-", "2">>},
           git_msg \in {NoText, K_B11} :
          InitProcess("batch", PushEnv(commits, ref, git_msg))
     \/ \E name \in {"pull_request", "release"},
           title \in TextPool, body \in {NoText, K_AA2},
           head_ref \in {<<>>, <<"d", "-", "A", "A", "-", "2">>},
           token \in BOOLEAN, coords \in BOOLEAN :
          InitProcess("batch", PullRequestEnv(name, title, body, head_ref, token, coords))

NextHarvest == HarvestCollect \/ HarvestFetch \/ HarvestExtract

SpecHarvest == InitHarvest /\ [][NextHarvest]_vars


-----------------------------------------------------------------------------
(* Properties *)

Last(q) == q[Len(q)]

NoDup(q) == \A i, j \in 1..Len(q) : i # j => q[i] # q[j]

Ops(q) == {q[i].op : i \in 1..Len(q)}

\* the tracker is as it was when the run started
TrackerUntouched == projComps = snapProj /\ issueComps = snapIssue

\* the issue fetch of the single-issue run was answered
Fetched == script = "single" /\ calls # <<>> /\ calls[1].op = "get_issue" /\ calls[1].ok

\* C1: in the single-issue Ensurer, once the issue is fetched and its
\* upper-cased project key is not in the (non-empty) parsed allow-list, the run
\* has ended as skipped(project_not_allowed) with exit code 0, the issue fetch
\* is the only request the tracker received, and the run changed nothing on
\* the tracker
C1_NotAllowedNeverMutates ==
  (/\ Fetched
   /\ allowed_projects # <<>>
   /\ Upper(env.projects[env.issue_key]) \notin Range(allowed_projects))
  => /\ pc = "exited" /\ outcome = "skipped" /\ reason = "project_not_allowed"
     /\ exit_code = 0
     /\ calls = <<Call("get_issue", env.issue_key, <<>>, TRUE)>>
     /\ Ops(calls) \cap {"list_components", "create_component", "update_issue"} = {}
     /\ (~interfered => TrackerUntouched)

C1_Witness ==
  /\ Fetched /\ run = "first" /\ outcome = "skipped"
  /\ reason = "project_not_allowed"
  /\ Upper(env.projects[env.issue_key]) \notin Range(allowed_projects)
  /\ Len(allowed_projects) >= 1

\* C2: a second run on the same issue keys after a successful first one (the
\* single-issue run processed; the batch reported every key OK and had every
\* tracker request answered with success), with no other actor in between, sends no create-component request and leaves the tracker (the
\* issues' attached sets and the projects' component sets) as the first run
\* left it; the single-issue script sends no issue update at all
C2_SecondRunIdempotent ==
  (/\ run = "second" /\ prevOutcome.succeeded /\ ~interfered
   /\ script = "batch" /\ pc \notin {"collect", "gh_api", "extract"}
        => issue_keys = prevOutcome.keys)
  => /\ "create_component" \notin Ops(calls)
     /\ TrackerUntouched
     /\ (script = "single" => "update_issue" \notin Ops(calls))

C2_Witness ==
  /\ script = "single" /\ run = "second" /\ prevOutcome.succeeded
  /\ ~interfered /\ pc = "exited" /\ outcome = "processed"
  /\ Target \in issueComps[env.issue_key]

\* C7: every single-issue run ends as exactly one of processed, skipped (with
\* one of the three skip reasons) or failed; exit code 0 exactly for processed
\* and skipped, 1 for failed (a required input is missing, or a tracker call
\* raised); a skipped run appends status=skipped and its skip_reason, a
\* processed run appends status=processed and only with the component in the
\* project and on the issue, a failed run appends nothing; nothing is
\* appended before the run ends
C7_OutcomeClassification ==
  script = "single" =>
    IF pc # "exited"
    THEN outcome = "none" /\ exit_code = -1 /\ output = <<>>
    ELSE /\ outcome \in {"processed", "skipped", "failed"}
         /\ (exit_code = 0 <=> outcome \in {"processed", "skipped"})
         /\ (exit_code = 1 <=> outcome = "failed")
         /\ outcome = "skipped" =>
              /\ reason \in {"missing_project_filter", "invalid_project_filter",
                             "project_not_allowed"}
              /\ output = <<Line("status", "skipped"), Line("skip_reason", reason)>>
         /\ outcome = "processed" =>
              /\ output = <<Line("status", "processed")>>
              /\ env.component_name \in projComps[env.projects[env.issue_key]]
              /\ env.component_name \in issueComps[env.issue_key]
         /\ outcome = "failed" =>
              /\ output = <<>>
              /\ \/ ~env.required /\ calls = <<>>
                 \/ env.required /\ calls = <<>> /\ allowed_projects # <<>>
                 \/ calls # <<>> /\ ~Last(calls).ok

C7_Witness ==
  /\ script = "single" /\ run = "first" /\ pc = "exited" /\ outcome = "processed"
  /\ \E i \in 1..Len(calls) : calls[i].op = "create_component" /\ calls[i].ok
  /\ "update_issue" \in Ops(calls)


\* the keys of the [OK]/[WARN] lines, in the order printed
Logged == [i \in 1..Len(log) |-> log[i][1]]

\* the attach request for key k was sent to the tracker
AttachSent(k) ==
  \E i \in 1..Len(calls) : calls[i].op = "add_component" /\ calls[i].about = k

\* extract_issue_keys returned its list to main
Harvested == ~(outcome = "failed" /\ reason = "harvest_error")

\* C3: when the batch has ended on a harvested key list, whatever keys raised
\* (an HTTP error or any other exception), every harvested key was processed,
\* in ascending order, each key that did not raise got its attach call and its
\* [OK] line, each that raised its [WARN] line, and the exit code is 0
C3_BatchIsolation ==
  (script = "batch" /\ pc = "exited" /\ Harvested)
  => /\ exit_code = 0
     /\ Logged = issue_keys
     /\ \A i, j \in 1..Len(Logged) : i < j => StrLess(Logged[i], Logged[j])
     /\ \A k \in Range(issue_keys) :
          IF k \in raised THEN <<k, "WARN">> \in Range(log)
          ELSE AttachSent(k) /\ <<k, "OK">> \in Range(log)

C3_Witness ==
  /\ script = "batch" /\ pc = "exited" /\ Len(issue_keys) = 3
  /\ raised = {issue_keys[2]}
  /\ AttachSent(issue_keys[1]) /\ AttachSent(issue_keys[3])
  /\ \E i \in 1..Len(calls) : ~calls[i].ok

\* C4: as long as no other actor has touched the tracker during the run, no
\* step of the batch takes a component off any issue, and the single-issue
\* update writes a duplicate-free list whose names are exactly the issue's
\* prior components plus the target, which is what the issue then carries
C4_AttachKeepsComponents ==
  [][~interfered' =>
       /\ script = "batch" =>
            \A i \in DOMAIN issueComps : issueComps[i] \subseteq issueComps'[i]
       /\ (script = "single" /\ pc = "update" /\ pc' = "finish") =>
            LET written == Last(calls').body
            IN  /\ Last(calls').op = "update_issue"
                /\ NoDup(written)
                /\ Range(written) = issueComps[env.issue_key] \cup {env.component_name}
                /\ issueComps'[env.issue_key] = Range(written)]_vars

C4_Witness ==
  /\ script = "single" /\ pc = "finish" /\ ~interfered
  /\ Last(calls).op = "update_issue" /\ Last(calls).ok
  /\ Len(Last(calls).body) = 2
  /\ issueComps[env.issue_key] = {"old", Target}

\* C5: in the single-issue Ensurer, a create-component call refused because
\* the component already exists (a conflict) does not fail the run
C5_ConflictTreatedAsSuccess ==
  (/\ script = "single" /\ calls # <<>>
   /\ Last(calls).op = "create_component" /\ ~Last(calls).ok
   /\ env.component_name \in projComps[project_key])
  => outcome # "failed" /\ exit_code # 1

\* C6: when the batch has ended and every tracker call of the run was
\* answered successfully, every harvested key is reported OK with the
\* component attached to it, and no project saw the component created twice
C6_BatchCreateIfAbsent ==
  (script = "batch" /\ pc = "exited" /\ \A i \in 1..Len(calls) : calls[i].ok)
  => /\ \A k \in Range(issue_keys) :
          /\ <<k, "OK">> \in Range(log)
          /\ Target \in issueComps[k]
          /\ Target \in projComps[env.projects[k]]
     /\ \A i, j \in 1..Len(calls) :
          (/\ calls[i].op = "create_component" /\ calls[j].op = "create_component"
           /\ calls[i].about = calls[j].about) => i = j

\* C10: with other actors attaching components at any moment, no step of the
\* batch takes a component off an issue (what they attached stays), whereas
\* the single-issue update leaves on the issue exactly the snapshot read at the
\* start of the run plus the target: what was attached since is removed
C10_RaceOnComponents ==
  [][/\ script = "batch" =>
          /\ \A i \in DOMAIN issueComps : issueComps[i] \subseteq issueComps'[i]
          /\ \A a \in actorAdded : a[2] \in issueComps[a[1]]
     /\ (script = "single" /\ pc = "update" /\ pc' = "finish") =>
          /\ issueComps'[env.issue_key] =
               Range(existing_components) \cup {env.component_name}
          /\ \A c \in issueComps[env.issue_key] :
               c \notin Range(existing_components) \cup {env.component_name}
                 => c \notin issueComps'[env.issue_key]]_vars

C10_Witness ==
  /\ script = "single" /\ pc = "finish"
  /\ \E a \in actorAdded : a[1] = env.issue_key /\ a[2] \notin issueComps[a[1]]


\* the entries of an allow-list string, stated on positions: f[a..b] is an
\* entry when it starts and ends with a non-blank character, has no comma, and
\* only blanks separate it from the commas (or the ends of f) around it
Entries(f) ==
  {SubSeq(f, a, b) : <<a, b>> \in
     {ab \in (1..Len(f)) \X (1..Len(f)) :
        /\ ab[1] <= ab[2]
        /\ ~IsSpace(f[ab[1]]) /\ ~IsSpace(f[ab[2]])
        /\ \A m \in ab[1]..ab[2] : f[m] # ","
        /\ \E i \in 1..ab[1], j \in ab[2]..Len(f) :
             /\ i = 1 \/ f[i - 1] = ","
             /\ j = Len(f) \/ f[j + 1] = ","
             /\ \A m \in (i..(ab[1] - 1)) \cup ((ab[2] + 1)..j) : IsSpace(f[m])}}

\* equal but for the case of letters
SameIgnoringCase(a, b) ==
  Len(a) = Len(b) /\ \A m \in 1..Len(a) : UpperChar(a[m]) = UpperChar(b[m])

\* absent, or nothing but blanks
Blank(f) == f = NoText \/ \A m \in 1..Len(f) : IsSpace(f[m])

\* C8: in a single-issue run whose required inputs are present: an absent or
\* blank allow-list ends the run as skipped(missing_project_filter) and one
\* with no entry as skipped(invalid_project_filter), both before any tracker
\* call; otherwise the parsed allow-list is exactly the entries between commas,
\* trimmed and upper-cased ("ca, Dev ," gives CA, DEV), and a fetched issue
\* passes the gate exactly when its project key equals an entry but for case
C8_AllowListParsing ==
  (script = "single" /\ env.required /\ pc \notin {"validate", "check_filter"})
  => IF Blank(env.filter)
     THEN /\ pc = "exited" /\ outcome = "skipped" /\ exit_code = 0
          /\ reason = "missing_project_filter" /\ calls = <<>>
     ELSE pc # "parse" =>
          /\ Range(allowed_projects) = {Upper(e) : e \in Entries(env.filter)}
          /\ env.filter = ExampleFilter =>
               allowed_projects = << <<"C", "A">>, <<"D", "E", "V">> >>
          /\ IF Entries(env.filter) = {}
             THEN /\ pc = "exited" /\ outcome = "skipped" /\ exit_code = 0
                  /\ reason = "invalid_project_filter" /\ calls = <<>>
             ELSE /\ pc # "exited" => outcome = "none"
                  /\ Fetched =>
                       IF \E e \in Entries(env.filter) :
                            SameIgnoringCase(e, env.projects[env.issue_key])
                       THEN pc = "list"
                       ELSE outcome = "skipped" /\ reason = "project_not_allowed"

C8_Witness ==
  /\ script = "single" /\ pc = "list" /\ Fetched
  /\ env.filter = ExampleFilter
  /\ env.projects[env.issue_key] = <<"d", "E", "v">>
  /\ allowed_projects = << <<"C", "A">>, <<"D", "E", "V">> >>

\* is k an issue key: an upper-case letter, one or more upper-case letters or
\* digits, a dash, one or more digits
IsIssueKey(k) ==
  \E d \in 3..(Len(k) - 1) :
    /\ k[d] = "-"
    /\ k[1] \in UpperLetters
    /\ \A m \in 2..(d - 1) : k[m] \in UpperLetters \cup Digits
    /\ \A m \in (d + 1)..Len(k) : k[m] \in Digits

\* the issue keys that occur in a text as whole words
KeysIn(t) ==
  {SubSeq(t, ab[1], ab[2]) : ab \in
     {ab \in (1..Len(t)) \X (1..Len(t)) :
        /\ ab[1] <= ab[2]
        /\ IsIssueKey(SubSeq(t, ab[1], ab[2]))
        /\ ~WordAt(t, ab[1] - 1) /\ ~WordAt(t, ab[2] + 1)}}

\* the texts the event type calls for
EventTexts ==
  IF env.event_name = "push"
  THEN Range(env.commits) \cup {env.ref, env.git_msg}
  ELSE IF env.event_name = "pull_request"
  THEN {env.title, env.body, env.head_ref}
         \cup (IF /\ env.token /\ env.coords /\ gh_response.asked
                  /\ gh_response.answer.reach
                  /\ gh_response.answer.status = 200
                  /\ gh_response.answer.body.list
               THEN Range(gh_response.answer.body.items) ELSE {})
  ELSE {}

\* C9: for every event the extraction returns a result (the fetch of the PR's
\* commits is best effort and raises no error), and the result is a
\* duplicate-free list in ascending string order holding exactly the issue
\* keys that occur in the texts of the event type; the host is asked only for
\* a pull_request with token and PR coordinates, and an answer that is not 200
\* with a list adds nothing
C9_Harvester ==
  /\ gh_response.asked =>
       env.event_name = "pull_request" /\ env.token /\ env.coords
  /\ script = "batch" => Harvested
  /\ (script = "batch" /\ pc = "dispatch") =>
       /\ NoDup(issue_keys)
       /\ \A i, j \in 1..Len(issue_keys) :
            i < j => StrLess(issue_keys[i], issue_keys[j])
       /\ Range(issue_keys) = UNION {KeysIn(t) : t \in EventTexts \ {NoText}}
       /\ \A k \in Range(issue_keys) : IsIssueKey(k)

====
